---- MODULE Spec2Model ----
(***************************************************************************)
(* Model of ListManager (src/list_manager.py): the in-memory mapping of    *)
(* list names to item sequences, its JSON storage file and fixed-name      *)
(* backup, and the public operations.  Strings are sequences of one-       *)
(* character strings so that strip(), lower() and split(',') are computed. *)
(***************************************************************************)
EXTENDS Integers, Sequences, FiniteSets, TLC

VARIABLES
    config,   \* the BotConfig the manager was constructed with
    lists,    \* self.lists
    file,     \* content of config.data_file
    backup,   \* content of config.data_file + ".backup"
    fails,    \* failed saves since the last successful one
    last,     \* the call that returned last
    sidecars, \* contents of the data_file + ".backup_<timestamp>" files, oldest first
    alive,    \* a ListManager has been constructed and its process runs
    threads,  \* position of each caller thread inside add_item
    overlapped \* some add_item began while another one was in flight

vars == <<config, lists, file, backup, fails, last, sidecars, alive, threads,
          overlapped>>

raceVars == <<threads, overlapped>>

----------------------------------------------------------------------------
(* Bounds of the model: the limits given to BotConfig in the configurations *)
(* explored, and the number of consecutive failed saves.                   *)

MaxNameLen == 1
MaxItemLen == 1
MaxLists == 2
MaxItems == 3
MaxFailures == 1
MaxSidecars == 1
MaxStoredLists == 49

\* BotConfig fields
max_list_name_length == config.max_list_name_length
max_item_length == config.max_item_length
max_lists_per_user == config.max_lists_per_user
max_items_per_list == config.max_items_per_list
backup_enabled == config.backup_enabled

BotConfig(nlists, nitems, bk) ==
    [max_list_name_length |-> MaxNameLen, max_item_length |-> MaxItemLen,
     max_lists_per_user |-> nlists, max_items_per_list |-> nitems,
     backup_enabled |-> bk]

\* several lists of one item each, without the save-time backup
WideConfig == BotConfig(MaxLists, 1, FALSE)

\* one list of several items, without the save-time backup
DeepConfig == BotConfig(1, MaxItems, FALSE)

\* one list of one item, with the save-time backup
SafeConfig == BotConfig(1, 1, TRUE)

\* one list of two items, without the save-time backup
PlainConfig == BotConfig(1, 2, FALSE)

\* the defaults of the dataclass
DefaultConfig ==
    [max_list_name_length |-> 50, max_item_length |-> 200,
     max_lists_per_user |-> 50, max_items_per_list |-> 100,
     backup_enabled |-> TRUE]

----------------------------------------------------------------------------
(* Strings.                                                                *)

EmptyStr == <<>>

\* str.lower() on the alphabet of the model
LowerChar(c) == IF c = "A" THEN "a" ELSE IF c = "B" THEN "b" ELSE c

Lower(s) == [i \in 1..Len(s) |-> LowerChar(s[i])]

IsSpace(c) == c = " "

RECURSIVE LStrip(_)
LStrip(s) == IF s # <<>> /\ IsSpace(Head(s)) THEN LStrip(Tail(s)) ELSE s

RECURSIVE RStrip(_)
RStrip(s) ==
    IF s # <<>> /\ IsSpace(s[Len(s)]) THEN RStrip(SubSeq(s, 1, Len(s) - 1)) ELSE s

\* str.strip()
Strip(s) == RStrip(LStrip(s))

\* str.split(','): the pieces between commas, empty pieces included
RECURSIVE SplitFrom(_, _, _)
SplitFrom(s, cur, acc) ==
    IF s = <<>> THEN Append(acc, cur)
    ELSE IF Head(s) = "," THEN SplitFrom(Tail(s), <<>>, Append(acc, cur))
    ELSE SplitFrom(Tail(s), Append(cur, Head(s)), acc)

Split(s) == SplitFrom(s, <<>>, <<>>)

\* x in sequence (Python "in" on a list: exact equality)
InSeq(x, seq) == \E i \in 1..Len(seq) : seq[i] = x

\* list.remove(x): drops the first occurrence
RECURSIVE RemoveFirst(_, _)
RemoveFirst(seq, x) ==
    IF seq = <<>> THEN <<>>
    ELSE IF Head(seq) = x THEN Tail(seq)
    ELSE <<Head(seq)>> \o RemoveFirst(Tail(seq), x)

\* the sequence without its i-th element
\* a removal that also drops everything after the position
DropAt_Truncates(seq, i) == SubSeq(seq, 1, i - 1)

DropAt(seq, i) == SubSeq(seq, 1, i - 1) \o SubSeq(seq, i + 1, Len(seq))

----------------------------------------------------------------------------
(* The collection: self.lists, a dict in insertion order.  Each entry is   *)
(* one key with its value; kind is "list" for a JSON array of strings and  *)
(* "num" or "null" for the other JSON values a loaded file may hold.       *)

ListEntry(n, its) == [name |-> n, kind |-> "list", items |-> its]

Keys(ls) == {ls[i].name : i \in 1..Len(ls)}

\* position of the exact key n in the dict, 0 when it is not a key
IndexOfKey(ls, n) ==
    IF \E i \in 1..Len(ls) : ls[i].name = n
    THEN CHOOSE i \in 1..Len(ls) : ls[i].name = n /\ \A j \in 1..(i - 1) : ls[j].name # n
    ELSE 0

\* len(v): a TypeError for a number or null
HasLen(e) == e.kind = "list"

----------------------------------------------------------------------------
(* Storage: the content of data_file and of data_file + ".backup".         *)
(*   absent  no file                                                       *)
(*   obj     JSON text whose root is an object, d its members in order     *)
(*   nonobj  JSON text whose root is not an object                         *)
(*   bad     text that is not JSON                                         *)
(*   trunc   the prefix left by a write that failed part-way               *)
(*   undec   bytes that are not UTF-8                                      *)
(*   noperm  a file the process has no permission to read                  *)

Absent == [k |-> "absent", d |-> <<>>]
NonObj == [k |-> "nonobj", d |-> <<>>]
Bad == [k |-> "bad", d |-> <<>>]
Trunc == [k |-> "trunc", d |-> <<>>]
Undecodable == [k |-> "undec", d |-> <<>>]
Unreadable == [k |-> "noperm", d |-> <<>>]

\* a dump that writes the members in reverse order
Dump_Reversed(ls) == [k |-> "obj", d |-> [i \in 1..Len(ls) |-> ls[Len(ls) + 1 - i]]]

\* json.dump(self.lists, f): one member per key, in dict order
Dump(ls) == [k |-> "obj", d |-> ls]

\* the dict json.load builds from the members of an object: a repeated key
\* keeps its first position and takes the last value
RECURSIVE FromMembers(_, _)
FromMembers(ms, acc) ==
    IF ms = <<>> THEN acc
    ELSE LET m == Head(ms)
             i == IndexOfKey(acc, m.name)
         IN  IF i = 0 THEN FromMembers(Tail(ms), Append(acc, m))
             ELSE FromMembers(Tail(ms), [acc EXCEPT ![i] = m])

Parses(f) == f.k \in {"obj", "nonobj"}

\* open(data_file, 'r') raises an IOError
OpenFails(f) == f.k = "noperm"

\* json.load raises UnicodeDecodeError, which is a ValueError but neither a
\* JSONDecodeError nor an IOError, so "except (json.JSONDecodeError, IOError)"
\* lets it pass
LoadRaises(f) == f.k = "undec"

\* the except branch of _load_data runs, and with it _backup_corrupted_file
LoadFails(f) == OpenFails(f) \/ f.k \in {"bad", "trunc"}

\* _backup_corrupted_file: what shutil.copy2 may do to the sidecar copy; the
\* copy of a file that cannot be read always fails
CopyOutcomes(f) == IF OpenFails(f) THEN {"copyfail"} ELSE {"copied", "copyfail"}

SidecarsAfterLoad(f, sc, co) ==
    IF LoadFails(f) /\ co = "copied" THEN Append(sc, f) ELSE sc

\* _load_data: the collection the constructor ends with, when it returns
LoadData(f) ==
    IF f.k = "absent" THEN <<>>
    ELSE IF ~Parses(f) THEN <<>>
    ELSE IF f.k = "obj" THEN FromMembers(f.d, <<>>)
    ELSE <<>>

\* _save_data: what the environment may do to one save
\*   ok     backup copied (when enabled and the file exists), file rewritten
\*   copy   shutil.copy2 raises: nothing written
\*   open   open(..., 'w') raises after the copy: file untouched
\*   write  json.dump raises part-way: file left truncated
SaveOutcomes(f, budget) ==
    IF backup_enabled /\ OpenFails(f) THEN {"copy"}
    ELSE {"ok"} \cup (IF budget > 0
                      THEN {"open", "write"} \cup
                           (IF backup_enabled /\ f.k # "absent" THEN {"copy"} ELSE {})
                      ELSE {})

\* a save that never copies the file
BackupAfterSave_Never(f, b, o) == b

\* the fixed-name backup after one save: shutil.copy2 runs first, when the
\* backup is enabled and the file exists
BackupAfterSave(f, b, o) ==
    IF backup_enabled /\ f.k # "absent" /\ o # "copy" THEN f ELSE b

\* a save that leaves the old content in place
FileAfterSave_Stale(ls, f, o) == IF o = "write" THEN Trunc ELSE f

FileAfterSave(ls, f, o) ==
    IF o = "ok" THEN Dump(ls)
    ELSE IF o = "write" THEN Trunc
    ELSE f

----------------------------------------------------------------------------
(* Validation and lookup helpers of ListManager.                           *)

\* _validate_list_name passes
ValidateListName(raw) ==
    /\ raw # EmptyStr
    /\ Strip(raw) # EmptyStr
    /\ Len(Strip(raw)) <= max_list_name_length

\* an item validation without the length test
ValidateItem_NoLength(raw) == raw # EmptyStr /\ Strip(raw) # EmptyStr

\* _validate_item passes
ValidateItem(raw) ==
    /\ raw # EmptyStr
    /\ Strip(raw) # EmptyStr
    /\ Len(Strip(raw)) <= max_item_length

\* a lookup that compares the names as given, without lower()
FindListName_CaseSensitive(ls, n) == IndexOfKey(ls, n)

\* _find_list_name: position of the first key that equals the name when both
\* are lowercased, 0 for None
FindListName(ls, n) ==
    IF \E i \in 1..Len(ls) : Lower(ls[i].name) = Lower(n)
    THEN CHOOSE i \in 1..Len(ls) :
            /\ Lower(ls[i].name) = Lower(n)
            /\ \A j \in 1..(i - 1) : Lower(ls[j].name) # Lower(n)
    ELSE 0

\* a lookup whose result always tests false
Found_Never(ls, n) == FALSE

\* "if self._find_list_name(...)" / "if not actual_list_name": the name found
\* is tested for truth, and an empty key is falsy
Found(ls, n) == FindListName(ls, n) # 0 /\ ls[FindListName(ls, n)].name # EmptyStr

\* a list limit tested with > instead of >=
ListLimitReached_OffByOne(ls) == Len(ls) > max_lists_per_user

\* _check_list_limit raises
ListLimitReached(ls) == Len(ls) >= max_lists_per_user

\* an item limit tested with > instead of >=
ItemLimitReached_OffByOne(its) == Len(its) > max_items_per_list

\* _check_item_limit raises
ItemLimitReached(its) == Len(its) >= max_items_per_list

\* a membership test that never finds the item
ItemInList_Dropped(item, its) == FALSE

\* "item in self.lists[name]"
ItemInList(item, its) == InSeq(item, its)

----------------------------------------------------------------------------
(* Results.  cat is the error category of the returned string ("Ok" for a  *)
(* success message, "Error" for the generic failure string of the outer    *)
(* "except Exception"), or "Raised" when the exception reaches the caller. *)

NoSeq == <<>>

Result(c, m, ky) ==
    [cat |-> c, msg |-> m, key |-> ky, added |-> NoSeq, skipped |-> NoSeq,
     failed |-> NoSeq, out |-> NoSeq]

Generic == Result("Error", "GENERIC", EmptyStr)

\* what an operation decided before persisting: the new mapping, whether
\* _save_data is called, and the result returned when the save succeeds
Outcome(ls, sv, r) == [lists |-> ls, save |-> sv, res |-> r]

\* a rejection that also clears the mapping
Reject_Clearing(ls, c, m, ky) == Outcome(<<>>, FALSE, Result(c, m, ky))

\* an exception raised before any assignment to self.lists
Reject(ls, c, m, ky) == Outcome(ls, FALSE, Result(c, m, ky))

\* create_list without the collision test: the key is assigned again
CreateList_NoCollisionCheck(ls, raw) ==
    IF ~ValidateListName(raw)
    THEN Reject(ls, "Validation", "INVALID_LIST_NAME", EmptyStr)
    ELSE IF ListLimitReached(ls)
    THEN Reject(ls, "LimitExceeded", "TOO_MANY_LISTS", EmptyStr)
    ELSE Outcome(IF IndexOfKey(ls, Strip(raw)) # 0
                 THEN [ls EXCEPT ![IndexOfKey(ls, Strip(raw))].items = <<>>]
                 ELSE Append(ls, ListEntry(Strip(raw), <<>>)), TRUE,
                 Result("Ok", "LIST_CREATED", Strip(raw)))

\* create_list
CreateList(ls, raw) ==
    IF ~ValidateListName(raw)
    THEN Reject(ls, "Validation", "INVALID_LIST_NAME", EmptyStr)
    ELSE IF ListLimitReached(ls)
    THEN Reject(ls, "LimitExceeded", "TOO_MANY_LISTS", EmptyStr)
    ELSE IF Found(ls, Strip(raw))
    THEN Reject(ls, "AlreadyExists", "LIST_EXISTS", Strip(raw))
    ELSE Outcome(Append(ls, ListEntry(Strip(raw), <<>>)), TRUE,
                 Result("Ok", "LIST_CREATED", Strip(raw)))

\* add_item that tests membership before trimming the item
AddItem_CheckBeforeStrip(ls, rawname, rawitem) ==
    IF ~ValidateItem(rawitem)
    THEN Reject(ls, "Validation", "INVALID_ITEM", EmptyStr)
    ELSE IF ~Found(ls, rawname)
    THEN Reject(ls, "NotFound", "LIST_NOT_FOUND", rawname)
    ELSE LET i == FindListName(ls, rawname)
             e == ls[i]
         IN  IF ~HasLen(e) THEN Outcome(ls, FALSE, Generic)
             ELSE IF ItemLimitReached(e.items)
             THEN Reject(ls, "LimitExceeded", "TOO_MANY_ITEMS", EmptyStr)
             ELSE IF ItemInList(rawitem, e.items)
             THEN Reject(ls, "AlreadyExists", "ITEM_EXISTS", e.name)
             ELSE Outcome([ls EXCEPT ![i].items = Append(@, Strip(rawitem))], TRUE,
                          Result("Ok", "ITEM_ADDED", e.name))

\* add_item
AddItem(ls, rawname, rawitem) ==
    IF ~ValidateItem(rawitem)
    THEN Reject(ls, "Validation", "INVALID_ITEM", EmptyStr)
    ELSE IF ~Found(ls, rawname)
    THEN Reject(ls, "NotFound", "LIST_NOT_FOUND", rawname)
    ELSE LET i == FindListName(ls, rawname)
             e == ls[i]
             item == Strip(rawitem)
         IN  IF ~HasLen(e) THEN Outcome(ls, FALSE, Generic)
             ELSE IF ItemLimitReached(e.items)
             THEN Reject(ls, "LimitExceeded", "TOO_MANY_ITEMS", EmptyStr)
             ELSE IF ItemInList(item, e.items)
             THEN Reject(ls, "AlreadyExists", "ITEM_EXISTS", e.name)
             ELSE Outcome([ls EXCEPT ![i].items = Append(@, item)], TRUE,
                          Result("Ok", "ITEM_ADDED", e.name))

\* [item.strip() for item in items_text.split(',') if item.strip()]
RECURSIVE StripNonEmpty(_)
StripNonEmpty(ps) ==
    IF ps = <<>> THEN <<>>
    ELSE IF Strip(Head(ps)) # EmptyStr
    THEN <<Strip(Head(ps))>> \o StripNonEmpty(Tail(ps))
    ELSE StripNonEmpty(Tail(ps))

Candidates(text) == StripNonEmpty(Split(text))

\* a pre-check that counts only the candidates the list does not hold
BatchOverLimit_NewOnly(its, cands) ==
    Len(its) + Cardinality({i \in 1..Len(cands) : ~InSeq(cands[i], its)})
        > max_items_per_list

\* the capacity pre-check of add_multiple_items raises
BatchOverLimit(its, cands) == Len(its) + Len(cands) > max_items_per_list

\* a loop turn that appends every valid item without the duplicate test
BatchStep_NoDuplicateCheck(acc, item) ==
    IF ~ValidateItem(item)
    THEN [acc EXCEPT !.failed = Append(@, item)]
    ELSE [acc EXCEPT !.items = Append(@, item), !.added = Append(@, item)]

\* one turn of the loop of add_multiple_items; acc holds the list's items and
\* the three report lists
BatchStep(acc, item) ==
    IF ~ValidateItem(item)
    THEN [acc EXCEPT !.failed = Append(@, item)]
    ELSE IF ItemInList(item, acc.items)
    THEN [acc EXCEPT !.skipped = Append(@, item)]
    ELSE [acc EXCEPT !.items = Append(@, item), !.added = Append(@, item)]

RECURSIVE BatchLoop(_, _)
BatchLoop(acc, cands) ==
    IF cands = <<>> THEN acc
    ELSE BatchLoop(BatchStep(acc, Head(cands)), Tail(cands))

\* add_multiple_items
AddMultipleItems(ls, rawname, text) ==
    IF ~Found(ls, rawname)
    THEN Reject(ls, "NotFound", "LIST_NOT_FOUND", rawname)
    ELSE LET i == FindListName(ls, rawname)
             e == ls[i]
             cands == Candidates(text)
         IN  IF cands = <<>>
             THEN Reject(ls, "Validation", "NO_VALID_ITEMS", EmptyStr)
             ELSE IF ~HasLen(e) THEN Outcome(ls, FALSE, Generic)
             ELSE IF BatchOverLimit(e.items, cands)
             THEN Reject(ls, "LimitExceeded", "BATCH_TOO_LARGE", EmptyStr)
             ELSE LET acc == BatchLoop([items |-> e.items, added |-> <<>>,
                                        skipped |-> <<>>, failed |-> <<>>], cands)
                  IN  Outcome([ls EXCEPT ![i].items = acc.items],
                              acc.added # <<>>,
                              [Result("Ok", "SUMMARY", e.name) EXCEPT
                                  !.added = acc.added,
                                  !.skipped = acc.skipped,
                                  !.failed = acc.failed])

\* remove_item that reports the removal without removing
RemoveItem_KeepsItem(ls, rawname, rawitem) ==
    IF ~Found(ls, rawname)
    THEN Reject(ls, "NotFound", "LIST_NOT_FOUND", rawname)
    ELSE LET i == FindListName(ls, rawname)
             e == ls[i]
             item == Strip(rawitem)
         IN  IF ~HasLen(e) THEN Outcome(ls, FALSE, Generic)
             ELSE IF ~ItemInList(item, e.items)
             THEN Reject(ls, "NotFound", "ITEM_NOT_FOUND", e.name)
             ELSE Outcome(ls, TRUE, Result("Ok", "ITEM_REMOVED", e.name))

\* remove_item
RemoveItem(ls, rawname, rawitem) ==
    IF ~Found(ls, rawname)
    THEN Reject(ls, "NotFound", "LIST_NOT_FOUND", rawname)
    ELSE LET i == FindListName(ls, rawname)
             e == ls[i]
             item == Strip(rawitem)
         IN  IF ~HasLen(e) THEN Outcome(ls, FALSE, Generic)
             ELSE IF ~ItemInList(item, e.items)
             THEN Reject(ls, "NotFound", "ITEM_NOT_FOUND", e.name)
             ELSE Outcome([ls EXCEPT ![i].items = RemoveFirst(@, item)], TRUE,
                          Result("Ok", "ITEM_REMOVED", e.name))

\* delete_list that empties the list and keeps its key
DeleteList_KeepsKey(ls, rawname) ==
    IF ~Found(ls, rawname)
    THEN Reject(ls, "NotFound", "LIST_NOT_FOUND", rawname)
    ELSE LET i == FindListName(ls, rawname)
         IN  Outcome([ls EXCEPT ![i].items = <<>>], TRUE,
                     Result("Ok", "LIST_DELETED", ls[i].name))

\* delete_list
DeleteList(ls, rawname) ==
    IF ~Found(ls, rawname)
    THEN Reject(ls, "NotFound", "LIST_NOT_FOUND", rawname)
    ELSE LET i == FindListName(ls, rawname)
         IN  Outcome(DropAt(ls, i), TRUE, Result("Ok", "LIST_DELETED", ls[i].name))

----------------------------------------------------------------------------
(* The read operations.                                                    *)

\* ord(c) for the alphabet of the model
CharCode(c) ==
    CASE c = " " -> 32 [] c = "," -> 44 [] c = "A" -> 65 [] c = "B" -> 66
      [] c = "a" -> 97 [] c = "b" -> 98 [] OTHER -> 127

\* s < t for Python strings
RECURSIVE StrLess(_, _)
StrLess(s, t) ==
    IF t = <<>> THEN FALSE
    ELSE IF s = <<>> THEN TRUE
    ELSE IF Head(s) = Head(t) THEN StrLess(Tail(s), Tail(t))
    ELSE CharCode(Head(s)) < CharCode(Head(t))

\* sorted(self.lists.items()): insertion sort on the key (keys are distinct,
\* so the values are never compared)
RECURSIVE InsertByName(_, _)
InsertByName(sorted, e) ==
    IF sorted = <<>> THEN <<e>>
    ELSE IF StrLess(e.name, Head(sorted).name) THEN <<e>> \o sorted
    ELSE <<Head(sorted)>> \o InsertByName(Tail(sorted), e)

RECURSIVE SortedItems(_)
SortedItems(ls) ==
    IF ls = <<>> THEN <<>>
    ELSE InsertByName(SortedItems(SubSeq(ls, 1, Len(ls) - 1)), ls[Len(ls)])

\* "sub in s" for strings
IsSubstring(sub, s) ==
    \E i \in 0..(Len(s) - Len(sub)) : SubSeq(s, i + 1, i + Len(sub)) = sub

WithOut(r, o) == [r EXCEPT !.out = o]

\* show_list
ShowList(ls, rawname) ==
    IF ~Found(ls, rawname)
    THEN Result("NotFound", "LIST_NOT_FOUND", rawname)
    ELSE LET e == ls[FindListName(ls, rawname)]
         IN  IF e.kind = "null" \/ (e.kind = "list" /\ e.items = <<>>)
             THEN Result("Ok", "EMPTY_LIST", e.name)
             ELSE IF ~HasLen(e) THEN Generic
             ELSE WithOut(Result("Ok", "LIST_SHOWN", e.name), e.items)

\* show_all_lists without the sort of line 379
ShowAllLists_InsertionOrder(ls) ==
    IF ls = <<>> THEN Result("Ok", "NO_LISTS", EmptyStr)
    ELSE IF \E i \in 1..Len(ls) : ~HasLen(ls[i])
    THEN Result("Raised", "TypeError", EmptyStr)
    ELSE WithOut(Result("Ok", "ALL_LISTS", EmptyStr),
                 [i \in 1..Len(ls) |->
                     [name |-> ls[i].name, count |-> Len(ls[i].items)]])

\* show_all_lists: no try block, so the TypeError of len() reaches the caller
ShowAllLists(ls) ==
    IF ls = <<>> THEN Result("Ok", "NO_LISTS", EmptyStr)
    ELSE IF \E i \in 1..Len(ls) : ~HasLen(ls[i])
    THEN Result("Raised", "TypeError", EmptyStr)
    ELSE LET srt == SortedItems(ls)
         IN  WithOut(Result("Ok", "ALL_LISTS", EmptyStr),
                     [i \in 1..Len(srt) |->
                         [name |-> srt[i].name, count |-> Len(srt[i].items)]])

\* the result lines of search_item for one list
RECURSIVE MatchesIn(_, _, _)
MatchesIn(n, its, term) ==
    IF its = <<>> THEN <<>>
    ELSE (IF IsSubstring(Lower(term), Lower(Head(its)))
          THEN <<[name |-> n, item |-> Head(its)]>> ELSE <<>>)
         \o MatchesIn(n, Tail(its), term)

RECURSIVE SearchAll(_, _)
SearchAll(ls, term) ==
    IF ls = <<>> THEN <<>>
    ELSE MatchesIn(Head(ls).name, Head(ls).items, term) \o SearchAll(Tail(ls), term)

\* search_item that matches the term as given, without strip()
SearchItem_NoStrip(ls, rawterm) ==
    IF rawterm = EmptyStr \/ Strip(rawterm) = EmptyStr
    THEN Result("Validation", "EMPTY_SEARCH", EmptyStr)
    ELSE IF \E i \in 1..Len(ls) : ~HasLen(ls[i]) THEN Generic
    ELSE LET found == SearchAll(ls, rawterm)
         IN  IF found = <<>> THEN Result("Ok", "NO_SEARCH_RESULTS", Strip(rawterm))
             ELSE WithOut(Result("Ok", "SEARCH_RESULTS", Strip(rawterm)), found)

\* search_item
SearchItem(ls, rawterm) ==
    IF rawterm = EmptyStr \/ Strip(rawterm) = EmptyStr
    THEN Result("Validation", "EMPTY_SEARCH", EmptyStr)
    ELSE IF \E i \in 1..Len(ls) : ~HasLen(ls[i]) THEN Generic
    ELSE LET found == SearchAll(ls, Strip(rawterm))
         IN  IF found = <<>> THEN Result("Ok", "NO_SEARCH_RESULTS", Strip(rawterm))
             ELSE WithOut(Result("Ok", "SEARCH_RESULTS", Strip(rawterm)), found)

RECURSIVE TotalItems(_)
TotalItems(ls) == IF ls = <<>> THEN 0 ELSE Len(Head(ls).items) + TotalItems(Tail(ls))

RECURSIVE LargestSize(_)
LargestSize(ls) ==
    IF ls = <<>> THEN 0
    ELSE LET m == LargestSize(Tail(ls))
         IN  IF Len(Head(ls).items) > m THEN Len(Head(ls).items) ELSE m

\* Python's float is the IEEE 754 binary64 format: a significand of 53 bits.
MantissaBits == 53

\* A natural number too large for a machine word is the sequence of its
\* digits in base Base, most significant first, without leading zeros.
DigitBits == 16

Base == 65536

RECURSIVE Pow2(_)
Pow2(s) == IF s = 0 THEN 1 ELSE 2 * Pow2(s - 1)

\* the number of binary digits of n
RECURSIVE BitLen(_)
BitLen(n) == IF n = 0 THEN 0 ELSE 1 + BitLen(n \div 2)

RECURSIVE Big(_)
Big(n) == IF n = 0 THEN <<>> ELSE Append(Big(n \div Base), n % Base)

BigBitLen(x) == IF x = <<>> THEN 0 ELSE (Len(x) - 1) * DigitBits + BitLen(x[1])

\* x * m + c for small naturals m and c
RECURSIVE BigMul(_, _, _)
BigMul(x, m, c) ==
    IF x = <<>> THEN Big(c)
    ELSE Append(BigMul(SubSeq(x, 1, Len(x) - 1), m, (x[Len(x)] * m + c) \div Base),
                (x[Len(x)] * m + c) % Base)

\* short division of x by a small d > 0, digit by digit from the top: the
\* quotient digits so far are q and the remainder so far is r
RECURSIVE BigDivMod(_, _, _, _)
BigDivMod(q, r, x, d) ==
    IF x = <<>> THEN [q |-> q, r |-> r]
    ELSE BigDivMod(IF q = <<>> /\ (r * Base + Head(x)) \div d = 0 THEN <<>>
                   ELSE Append(q, (r * Base + Head(x)) \div d),
                   (r * Base + Head(x)) % d, Tail(x), d)

\* A positive float is [sig, exp]: sig is the significand, a natural number
\* of exactly MantissaBits binary digits, and the value is sig * 2^exp.
Zero == [sig |-> <<>>, exp |-> 0]

\* the quotient cut off after the significand (rounding toward zero)
Nearest_TowardZero(x, d, e) ==
    [sig |-> BigDivMod(<<>>, 0, x, d).q, exp |-> e]

\* The float nearest to (x / d) * 2^e, where the whole part of x / d has
\* MantissaBits binary digits; a tie goes to the even significand (the
\* rounding of int / int and of float * float in CPython).
Nearest(x, d, e) ==
    LET qr == BigDivMod(<<>>, 0, x, d)
        up == 2 * qr.r > d \/ (2 * qr.r = d /\ qr.q[Len(qr.q)] % 2 = 1)
        sig == IF up THEN BigMul(qr.q, 1, 1) ELSE qr.q
    IN  IF BigBitLen(sig) > MantissaBits
        THEN [sig |-> BigDivMod(<<>>, 0, sig, 2).q, exp |-> e + 1]
        ELSE [sig |-> sig, exp |-> e]

\* the least s with n * 2^s >= d
RECURSIVE ShiftTo(_, _)
ShiftTo(n, d) == IF n >= d THEN 0 ELSE 1 + ShiftTo(2 * n, d)

\* n * 2^k for 0 < n < Base
Scaled(n, k) == Big(n * Pow2(k % DigitBits)) \o [i \in 1..(k \div DigitBits) |-> 0]

\* n / d for Python ints 0 <= n < Base and 0 < d < Base / 2: the correctly
\* rounded quotient.  n / d lies in [2^a, 2^(a + 1)), and n is scaled by 2^k
\* so that the whole part of the quotient fills the significand.
TrueDiv(n, d) ==
    IF n = 0 THEN Zero
    ELSE LET a == IF n >= d THEN BitLen(n \div d) - 1 ELSE 0 - ShiftTo(n, d)
             k == MantissaBits - 1 - a
         IN  Nearest(Scaled(n, k), d, 0 - k)

\* get_stats: no try block; the average is a float, and 0 without lists
GetStats(ls) ==
    IF \E i \in 1..Len(ls) : ~HasLen(ls[i])
    THEN Result("Raised", "TypeError", EmptyStr)
    ELSE WithOut(Result("Ok", "STATS", EmptyStr),
                 <<[total_lists |-> Len(ls),
                    total_items |-> TotalItems(ls),
                    average_items_per_list |->
                        IF ls = <<>> THEN Zero ELSE TrueDiv(TotalItems(ls), Len(ls)),
                    largest_list_size |-> LargestSize(ls)]>>)

----------------------------------------------------------------------------
(* Inputs of the calls.                                                    *)

Str1(a) == <<a>>
Str2(a, b) == <<a, b>>
Str3(a, b, c) == <<a, b, c>>

\* the text "p1,p2,..." of a batch
RECURSIVE JoinComma(_)
JoinComma(ps) ==
    IF ps = <<>> THEN <<>>
    ELSE IF Len(ps) = 1 THEN Head(ps)
    ELSE Head(ps) \o <<",">> \o JoinComma(Tail(ps))

\* names given to create
RawNames ==
    {Str1("a"), Str1("A"), Str2(" ", "b"), EmptyStr, Str1(" "), Str3("a", "b", "a")}

\* names given to the operations that look a list up
LookupNames == {Str1("A"), Str1("b"), Str2(" ", "b")}

RawItems == {Str1("a"), Str1("A"), Str2("b", " "), EmptyStr, Str3("a", "b", "a")}

RemoveItems == {Str1("a"), Str2("b", " ")}

\* "a, b, a"   "A,aba,a"   " ,"   "b"
RawTexts ==
    {JoinComma(<<Str1("a"), Str2(" ", "b"), Str2(" ", "a")>>),
     JoinComma(<<Str1("A"), Str3("a", "b", "a"), Str1("a")>>),
     JoinComma(<<Str1(" "), EmptyStr>>),
     Str1("b")}

RawTerms == {Str1("a"), Str1(" "), Str2("B", " ")}

----------------------------------------------------------------------------
(* The calls.  The caller makes one call at a time; last holds the call    *)
(* that has returned and has not been answered yet: its operation, its     *)
(* arguments, the number of lists before it and its result.                *)

NoCall == [op |-> "none", name |-> EmptyStr, arg |-> EmptyStr, n0 |-> 0,
           save |-> "none", res |-> Result("Ok", "NONE", EmptyStr)]

\* save is what _save_data did during the call, "none" when it was not called
Call(o, n, a, r) ==
    [op |-> o, name |-> n, arg |-> a, n0 |-> Len(lists), save |-> "none", res |-> r]

\* the result a mutating operation returns, given what _save_data did: a
\* DataStorageError is caught by "except Exception"
\* a failed save that goes unreported
Returned_Swallowing(oc, so) == oc.res

Returned(oc, so) == IF oc.save /\ so # "ok" THEN Generic ELSE oc.res

\* a mutating operation: the in-memory change, then _save_data when the
\* operation calls it
Mutate(o, n, a, oc) ==
    /\ alive
    /\ last = NoCall
    /\ lists' = oc.lists
    /\ IF oc.save
       THEN \E so \in SaveOutcomes(file, MaxFailures - fails) :
               /\ file' = FileAfterSave(oc.lists, file, so)
               /\ backup' = BackupAfterSave(file, backup, so)
               /\ fails' = IF so = "ok" THEN 0
                           ELSE IF fails < MaxFailures THEN fails + 1 ELSE fails
               /\ last' = [Call(o, n, a, Returned(oc, so)) EXCEPT !.save = so]
       ELSE /\ UNCHANGED <<file, backup, fails>>
            /\ last' = Call(o, n, a, oc.res)
    /\ UNCHANGED <<config, sidecars, alive>>
    /\ UNCHANGED raceVars

\* a read that leaves the collection sorted by name
Read_Sorting(o, n, a, r) ==
    /\ alive
    /\ last = NoCall
    /\ last' = Call(o, n, a, r)
    /\ lists' = SortedItems(lists)
    /\ UNCHANGED <<config, file, backup, fails, sidecars, alive>>
    /\ UNCHANGED raceVars

Read(o, n, a, r) ==
    /\ alive
    /\ last = NoCall
    /\ last' = Call(o, n, a, r)
    /\ UNCHANGED <<config, lists, file, backup, fails, sidecars, alive>>
    /\ UNCHANGED raceVars

Create == \E n \in RawNames : Mutate("create", n, EmptyStr, CreateList(lists, n))

AddOne ==
    \E n \in LookupNames, it \in RawItems :
        Mutate("add_one", n, it, AddItem(lists, n, it))

AddMany ==
    \E n \in LookupNames, t \in RawTexts :
        Mutate("add_many", n, t, AddMultipleItems(lists, n, t))

Remove ==
    \E n \in LookupNames, it \in RemoveItems :
        Mutate("remove", n, it, RemoveItem(lists, n, it))

Delete == \E n \in LookupNames : Mutate("delete", n, EmptyStr, DeleteList(lists, n))

ShowOne == \E n \in LookupNames : Read("show_one", n, EmptyStr, ShowList(lists, n))

ShowAll == Read("show_all", EmptyStr, EmptyStr, ShowAllLists(lists))

Search == \E t \in RawTerms : Read("search", EmptyStr, t, SearchItem(lists, t))

Stats == Read("stats", EmptyStr, EmptyStr, GetStats(lists))

\* the caller sends the returned string to the user and is ready for the
\* next command
Reply ==
    /\ alive
    /\ last # NoCall
    /\ last' = NoCall
    /\ UNCHANGED <<config, lists, file, backup, fails, sidecars, alive>>
    /\ UNCHANGED raceVars

Loaded == Result("Ok", "LOADED", EmptyStr)

\* ListManager(config): __init__ runs _load_data on the storage file
Construct ==
    /\ ~alive
    /\ last = NoCall
    /\ LoadFails(file) => Len(sidecars) < MaxSidecars
    /\ IF LoadRaises(file)
       THEN /\ last' = [NoCall EXCEPT !.op = "init",
                           !.res = Result("Raised", "UnicodeDecodeError", EmptyStr)]
            /\ UNCHANGED <<lists, sidecars, alive>>
       ELSE /\ lists' = LoadData(file)
            /\ \E co \in CopyOutcomes(file) :
                  sidecars' = SidecarsAfterLoad(file, sidecars, co)
            /\ alive' = TRUE
            /\ last' = [NoCall EXCEPT !.op = "init", !.res = Loaded]
    /\ UNCHANGED <<config, file, backup, fails>>
    /\ UNCHANGED raceVars

\* the process ends; the mapping in memory is gone
Exit ==
    /\ alive
    /\ last = NoCall
    /\ alive' = FALSE
    /\ lists' = <<>>
    /\ UNCHANGED <<config, file, backup, fails, last, sidecars>>
    /\ UNCHANGED raceVars

Next ==
    \/ Create
    \/ AddOne
    \/ AddMany
    \/ Remove
    \/ Delete
    \/ ShowOne
    \/ ShowAll
    \/ Search
    \/ Stats
    \/ Reply
    \/ Construct
    \/ Exit

\* the caller threads of the concurrent specification; a thread is idle or
\* holds the key and the trimmed item its add_item has checked
Threads == {1, 2}

Idle == [pc |-> "idle", key |-> EmptyStr, item |-> EmptyStr]

\* before the process starts: the configuration and the storage location
Unstarted(c, f) ==
    /\ config = c
    /\ file = f
    /\ backup = Absent
    /\ lists = <<>>
    /\ fails = 0
    /\ last = NoCall
    /\ sidecars = <<>>
    /\ alive = FALSE
    /\ threads = [t \in Threads |-> Idle]
    /\ overlapped = FALSE

\* a first run: no storage file, so the collection starts empty
Init == \E c \in {WideConfig, DeepConfig} : Unstarted(c, Absent)

Spec == Init /\ [][Next]_vars

\* storage files found at construction: none, {"a": ["a"]}, {"b": [], "A": 5},
\* {"a": null}, a JSON text that is not an object, text that is not JSON,
\* bytes that are not UTF-8, and a file without read permission
InitialFiles ==
    {Absent,
     Dump(<<ListEntry(Str1("a"), <<Str1("a")>>)>>),
     [k |-> "obj", d |-> <<ListEntry(Str1("b"), <<>>),
                           [name |-> Str1("A"), kind |-> "num", items |-> <<>>]>>],
     [k |-> "obj", d |-> <<[name |-> Str1("a"), kind |-> "null", items |-> <<>>]>>],
     NonObj,
     Bad,
     Undecodable,
     Unreadable}

\* a start on whatever the storage location holds with the backup enabled,
\* or on {"a": ["a"]} with the backup disabled
InitLoaded ==
    \/ \E f \in InitialFiles : Unstarted(SafeConfig, f)
    \/ Unstarted(PlainConfig, Dump(<<ListEntry(Str1("a"), <<Str1("a")>>)>>))

SpecLoaded == InitLoaded /\ [][Next]_vars

\* storage files written by an earlier run whose limits were larger:
\* {"a": ["Ab", "b"], "B": ["ba"]} and {"b": ["aB", "A"]}
StoredFiles ==
    {Dump(<<ListEntry(Str1("a"), <<Str2("A", "b"), Str1("b")>>),
            ListEntry(Str1("B"), <<Str2("b", "a")>>)>>),
     Dump(<<ListEntry(Str1("b"), <<Str2("a", "B"), Str1("A")>>)>>)}

\* a start on a well-formed storage file
InitStored == \E f \in StoredFiles : Unstarted(WideConfig, f)

SpecStored == InitStored /\ [][Next]_vars

\* a start after a run whose last save copied the storage file to the backup
\* path and then failed part-way through the write: the file is cut short
\* and the backup holds what the file held before
InitBackup ==
    \E f \in StoredFiles \cup {Dump(<<ListEntry(Str1("a"), <<Str1("a")>>)>>)} :
        /\ config = SafeConfig
        /\ file = Trunc
        /\ backup = f
        /\ lists = <<>>
        /\ fails = 0
        /\ last = NoCall
        /\ sidecars = <<>>
        /\ alive = FALSE
        /\ threads = [t \in Threads |-> Idle]
        /\ overlapped = FALSE

SpecBackup == InitBackup /\ [][Next]_vars

----------------------------------------------------------------------------
(* get_stats on collections of up to MaxStoredLists lists.                 *)

\* the letters "a" and "b" for the binary digits 0 and 1 of i
RECURSIVE Numeral(_)
Numeral(i) ==
    IF i = 0 THEN <<>> ELSE Append(Numeral(i \div 2), IF i % 2 = 1 THEN "b" ELSE "a")

\* a storage file of n lists: the first holds i items, the second j items
\* and the others none
StatsFile(n, i, j) ==
    Dump([p \in 1..n |->
            ListEntry(Numeral(p),
                      [q \in 1..(IF p = 1 THEN i ELSE IF p = 2 THEN j ELSE 0) |->
                          Numeral(q)])])

InitStats ==
    \E n \in 0..MaxStoredLists, i \in 0..MaxItems, j \in 0..MaxItems :
        /\ n = 0 => i = 0
        /\ n <= 1 => j = 0
        /\ Unstarted(DefaultConfig, StatsFile(n, i, j))

NextStats == Construct \/ Stats \/ Reply \/ Exit

SpecStats == InitStats /\ [][NextStats]_vars

----------------------------------------------------------------------------
(* add_item called from several threads without a lock.  Its body runs in  *)
(* three steps, and another thread may run between any two of them.  The   *)
(* saves of this specification succeed.                                    *)

\* a first step that only looks the list up
BeginAdd_Unchecked(t, n, it) ==
    /\ alive
    /\ threads[t].pc = "idle"
    /\ Found(lists, n)
    /\ threads' = [threads EXCEPT ![t] =
                      [pc |-> "checked",
                       key |-> lists[FindListName(lists, n)].name,
                       item |-> Strip(it)]]
    /\ overlapped' = (overlapped \/ \E u \in Threads \ {t} : threads[u].pc # "idle")
    /\ UNCHANGED <<config, lists, file, backup, fails, last, sidecars, alive>>

\* lines 193-204: the item is validated, the list found, the capacity and
\* the membership tested; a call that is rejected returns without a change
BeginAdd(t, n, it) ==
    /\ alive
    /\ threads[t].pc = "idle"
    /\ AddItem(lists, n, it).save
    /\ threads' = [threads EXCEPT ![t] =
                      [pc |-> "checked",
                       key |-> lists[FindListName(lists, n)].name,
                       item |-> Strip(it)]]
    /\ overlapped' = (overlapped \/ \E u \in Threads \ {t} : threads[u].pc # "idle")
    /\ UNCHANGED <<config, lists, file, backup, fails, last, sidecars, alive>>

\* line 206: self.lists[actual_list_name].append(item)
AppendStep(t) ==
    /\ threads[t].pc = "checked"
    /\ lists' = [lists EXCEPT ![IndexOfKey(lists, threads[t].key)].items =
                    Append(@, threads[t].item)]
    /\ threads' = [threads EXCEPT ![t].pc = "appended"]
    /\ UNCHANGED <<config, file, backup, fails, last, sidecars, alive, overlapped>>

\* line 207: self._save_data(), then the call returns
SaveStep(t) ==
    /\ threads[t].pc = "appended"
    /\ file' = FileAfterSave(lists, file, "ok")
    /\ backup' = BackupAfterSave(file, backup, "ok")
    /\ threads' = [threads EXCEPT ![t] = Idle]
    /\ UNCHANGED <<config, lists, fails, last, sidecars, alive, overlapped>>

NextRace ==
    \/ Construct
    \/ \E t \in Threads, n \in LookupNames, it \in RawItems : BeginAdd(t, n, it)
    \/ \E t \in Threads : AppendStep(t)
    \/ \E t \in Threads : SaveStep(t)

\* a start on the storage file {"a": []}
InitRace ==
    \E c \in {WideConfig, DeepConfig} :
        Unstarted(c, Dump(<<ListEntry(Str1("a"), <<>>)>>))

SpecRace == InitRace /\ [][NextRace]_vars

----------------------------------------------------------------------------
(* Vocabulary of the properties.                                           *)

Mutators == {"create", "add_one", "add_many", "remove", "delete"}

\* a name or item the validation accepts: non-blank and within its limit
IsValidName(raw) == Strip(raw) # EmptyStr /\ Len(Strip(raw)) <= max_list_name_length

IsValidItem(raw) == Strip(raw) # EmptyStr /\ Len(Strip(raw)) <= max_item_length

\* some key equals the name when both are lowercased
Resolves(ls, n) == \E i \in 1..Len(ls) : Lower(ls[i].name) = Lower(n)

\* the items of the list a name resolves to
ItemsOf(ls, n) ==
    ls[CHOOSE i \in 1..Len(ls) : Lower(ls[i].name) = Lower(n)].items

Distinct(seq) == \A i, j \in 1..Len(seq) : i # j => seq[i] # seq[j]

Trimmed(str) ==
    str # EmptyStr /\ ~IsSpace(str[1]) /\ ~IsSpace(str[Len(str)])

\* C1: no list ever holds the same item string twice (exact, case-sensitive
\* equality), whatever sequence of calls, repeating batches and failed saves
\* led to the state.
C1_NoDuplicateItems == \A i \in 1..Len(lists) : Distinct(lists[i].items)

\* add_one of an item the list already holds has returned AlreadyExists and
\* the list still holds it once, next to the item differing only in case
C1_Witness ==
    /\ last.op = "add_one"
    /\ last.res.cat = "AlreadyExists"
    /\ Strip(last.arg) = Str1("a")
    /\ \E i \in 1..Len(lists) : lists[i].items = <<Str1("A"), Str1("a")>>

\* C2: every list holds at most max_items_per_list items in every state
\* that add_one, add_many and the other operations can reach.
C2_ItemLimit == \A i \in 1..Len(lists) : Len(lists[i].items) <= max_items_per_list

\* add_one of a valid new item was refused on a list that is exactly full
C2_Witness ==
    /\ last.op = "add_one"
    /\ last.res.cat = "LimitExceeded"
    /\ Resolves(lists, last.name)
    /\ Len(ItemsOf(lists, last.name)) = max_items_per_list
    /\ ~InSeq(Strip(last.arg), ItemsOf(lists, last.name))

C4_KeysDistinctIgnoringCase ==
    /\ \A i, j \in 1..Len(lists) :
          i # j => Lower(lists[i].name) # Lower(lists[j].name)
    /\ (last.op = "create" /\ Len(lists) > last.n0)
          => Cardinality({i \in 1..Len(lists) :
                            Lower(lists[i].name) = Lower(Strip(last.name))}) = 1

\* create("a") was refused as AlreadyExists while the stored key is "A"
C4_Witness ==
    /\ last.op = "create"
    /\ last.name = Str1("a")
    /\ last.res.cat = "AlreadyExists"
    /\ \E i \in 1..Len(lists) : lists[i].name = Str1("A")

\* C5: every stored name is trimmed with length in 1..max_list_name_length
\* and every stored item is trimmed with length in 1..max_item_length.
C5_StoredStringsValid ==
    \A i \in 1..Len(lists) :
        /\ Trimmed(lists[i].name)
        /\ Len(lists[i].name) <= max_list_name_length
        /\ \A k \in 1..Len(lists[i].items) :
              /\ Trimmed(lists[i].items[k])
              /\ Len(lists[i].items[k]) <= max_item_length

\* the batch "A,aba,a" has returned: the over-long piece was reported as
\* failed and the list, created from " b", holds only valid items
C5_Witness ==
    /\ last.op = "add_many"
    /\ last.res.failed # <<>>
    /\ last.res.added # <<>>
    /\ \E i \in 1..Len(lists) : lists[i].name = Str1("b") /\ lists[i].items # <<>>

\* C6: when a mutating operation has returned, memory holds no change that
\* storage does not hold, and the storage file is never a partially written
\* collection.
C6_AppliedOrRejected ==
    last.op \in Mutators => (LoadData(file) = lists /\ file.k # "trunc")

\* C7: no public operation lets an exception reach its caller.
C7_NoExceptionEscapes == last.op # "init" => last.res.cat # "Raised"

\* C8 as stated: after create(n) of a valid name has returned, create of n
\* or of a name differing only in letter case yields AlreadyExists, and the
\* size has grown by at most 1 over the two calls.
C8_SecondCreateAlreadyExists ==
    (last.op = "create" /\ IsValidName(last.name)) =>
        \A n2 \in RawNames :
            Lower(n2) = Lower(last.name) =>
                /\ CreateList(lists, n2).res.cat = "AlreadyExists"
                /\ Len(CreateList(lists, n2).lists) <= last.n0 + 1

\* C8 amended: the second create is always rejected and changes nothing, with
\* AlreadyExists when the collection is below max_lists_per_user after the
\* first call and with LimitExceeded when it is full; the size grows by at
\* most 1 over the two calls.
C8_SecondCreateRejected ==
    (last.op = "create" /\ IsValidName(last.name)) =>
        \A n2 \in RawNames :
            Lower(n2) = Lower(last.name) =>
                /\ CreateList(lists, n2).res.cat =
                      (IF Len(lists) < max_lists_per_user
                       THEN "AlreadyExists" ELSE "LimitExceeded")
                /\ CreateList(lists, n2).lists = lists
                /\ ~CreateList(lists, n2).save
                /\ Len(lists) <= last.n0 + 1

\* create("A") was refused as AlreadyExists on a collection whose only key
\* is "a", with room for another list
C8_Witness ==
    /\ last.op = "create"
    /\ last.name = Str1("A")
    /\ last.res.msg = "LIST_EXISTS"
    /\ Len(lists) = 1
    /\ lists[1].name = Str1("a")
    /\ max_lists_per_user > 1

\* C9 as stated: after add_one(list, item) of a valid item on an existing
\* list has returned, add_one with the same trimmed item yields
\* AlreadyExists and leaves the list length as it is.
C9_SecondAddAlreadyExists ==
    (last.op = "add_one" /\ Resolves(lists, last.name) /\ IsValidItem(last.arg)) =>
        \A it2 \in RawItems :
            Strip(it2) = Strip(last.arg) =>
                /\ AddItem(lists, last.name, it2).res.cat = "AlreadyExists"
                /\ Len(ItemsOf(AddItem(lists, last.name, it2).lists, last.name))
                      = Len(ItemsOf(lists, last.name))

\* C9 amended: the second add_one is always rejected and changes nothing,
\* with AlreadyExists when the list holds fewer than max_items_per_list
\* items after the first call and with LimitExceeded when it is full.
C9_SecondAddRejected ==
    (last.op = "add_one" /\ Resolves(lists, last.name) /\ IsValidItem(last.arg)) =>
        \A it2 \in RawItems :
            Strip(it2) = Strip(last.arg) =>
                /\ AddItem(lists, last.name, it2).res.cat =
                      (IF Len(ItemsOf(lists, last.name)) < max_items_per_list
                       THEN "AlreadyExists" ELSE "LimitExceeded")
                /\ AddItem(lists, last.name, it2).lists = lists
                /\ ~AddItem(lists, last.name, it2).save

\* add_one("b ") was refused as AlreadyExists on a list with room left
C9_Witness ==
    /\ last.op = "add_one"
    /\ last.arg = Str2("b", " ")
    /\ last.res.msg = "ITEM_EXISTS"
    /\ Len(ItemsOf(lists, last.name)) < max_items_per_list

\* the ordered subsequence of seq at the positions in S
RECURSIVE TakeAt(_, _, _)
TakeAt(seq, S, i) ==
    IF i > Len(seq) THEN <<>>
    ELSE (IF i \in S THEN <<seq[i]>> ELSE <<>>) \o TakeAt(seq, S, i + 1)

\* positions of the valid candidates that are new to the list and not a
\* repeat of an earlier candidate, and of those that are
FirstNew(old, cands) ==
    {i \in 1..Len(cands) :
        /\ IsValidItem(cands[i])
        /\ ~InSeq(cands[i], old)
        /\ \A j \in 1..(i - 1) : cands[j] # cands[i]}

Repeated(old, cands) ==
    {i \in 1..Len(cands) :
        /\ IsValidItem(cands[i])
        /\ (InSeq(cands[i], old) \/ \E j \in 1..(i - 1) : cands[j] = cands[i])}

TextABA == JoinComma(<<Str1("a"), Str2(" ", "b"), Str2(" ", "a")>>)

\* this step is add_many returning on an existing list
BatchReturns == last'.op = "add_many" /\ Resolves(lists, last'.name)

\* the step follows the batch rules: the list grows by the new valid
\* candidates in order of first occurrence, and the report, returned unless
\* the save failed, lists the repeated or pre-existing ones as skipped
BatchAsSpecified ==
    LET old == ItemsOf(lists, last'.name)
        cands == Candidates(last'.arg)
    IN  /\ ItemsOf(lists', last'.name) = old \o TakeAt(cands, FirstNew(old, cands), 1)
        /\ last'.res.msg # "GENERIC" =>
              last'.res.skipped = TakeAt(cands, Repeated(old, cands), 1)

ExampleABA ==
    LET old == ItemsOf(lists, last'.name)
    IN  /\ ItemsOf(lists', last'.name) = old \o <<Str1("a"), Str1("b")>>
        /\ Len(ItemsOf(lists', last'.name)) = Len(old) + 2
        /\ last'.res.msg # "GENERIC" => last'.res.skipped = <<Str1("a")>>

NeitherAB(its) == ~InSeq(Str1("a"), its) /\ ~InSeq(Str1("b"), its)

\* C10 as stated: on every existing list holding neither "a" nor "b",
\* add_many "a, b, a" appends "a" and "b", reports the second "a" as skipped
\* and lengthens the list by 2; in general every batch follows the rules.
C10_BatchAddsOnce ==
    [][BatchReturns =>
          /\ (last'.arg = TextABA /\ NeitherAB(ItemsOf(lists, last'.name)))
                => ExampleABA
          /\ BatchAsSpecified]_vars

\* C10 amended: the same for the calls that pass the capacity pre-check
\* (current count + number of candidates <= max_items_per_list).
C10_BatchAddsOnceWithinLimit ==
    [][(/\ BatchReturns
        /\ Len(ItemsOf(lists, last'.name)) + Len(Candidates(last'.arg))
              <= max_items_per_list) =>
          /\ (last'.arg = TextABA /\ NeitherAB(ItemsOf(lists, last'.name)))
                => ExampleABA
          /\ BatchAsSpecified]_vars

\* the batch "a, b, a" has returned its report on a list that was empty
C10_Witness ==
    /\ last.op = "add_many"
    /\ last.arg = TextABA
    /\ last.res.added = <<Str1("a"), Str1("b")>>
    /\ last.res.skipped = <<Str1("a")>>
    /\ ItemsOf(lists, last.name) = <<Str1("a"), Str1("b")>>

\* this step is add_one returning on an existing list that holds
\* max_items_per_list items
AddOnFullList ==
    /\ last'.op = "add_one"
    /\ Resolves(lists, last'.name)
    /\ Len(ItemsOf(lists, last'.name)) = max_items_per_list

\* this step is remove returning its success message
Removed == last'.op = "remove" /\ last'.res.msg = "ITEM_REMOVED"

\* after this step, add_one of every valid item the list does not hold is
\* accepted and appends the item
AddAcceptedAgain ==
    \A it \in RawItems :
        (IsValidItem(it) /\ ~InSeq(Strip(it), ItemsOf(lists', last'.name))) =>
            LET oc == AddItem(lists', last'.name, it)
            IN  /\ oc.res.cat = "Ok"
                /\ oc.save
                /\ ItemsOf(oc.lists, last'.name)
                      = Append(ItemsOf(lists', last'.name), Strip(it))

\* C11 as stated: once a list holds max_items_per_list items, every add_one
\* on it returns LimitExceeded and leaves the collection as it is; after a
\* remove, add_one of a new valid item is accepted again.
C11_FullListRefusesEveryAdd ==
    [][/\ AddOnFullList => (last'.res.cat = "LimitExceeded" /\ lists' = lists)
       /\ Removed => AddAcceptedAgain]_vars

\* C11 amended: the same for every add_one of a valid item (an invalid item
\* is refused as Validation before the capacity is looked at).
C11_FullListRefusesValidAdds ==
    [][/\ (AddOnFullList /\ IsValidItem(last'.arg))
             => (last'.res.cat = "LimitExceeded" /\ lists' = lists)
       /\ Removed => AddAcceptedAgain]_vars

\* remove has returned its success message on a list of MaxItems items, which
\* now has one free slot
C11_Witness ==
    /\ last.op = "remove"
    /\ last.res.msg = "ITEM_REMOVED"
    /\ max_items_per_list = MaxItems
    /\ Len(ItemsOf(lists, last.name)) = MaxItems - 1

\* the operations that look a list up
Resolving == {"show_one", "add_one", "add_many", "remove", "delete"}

AllNames == RawNames \cup LookupNames

\* this step is delete returning its success message: no spelling of the
\* deleted key resolves afterwards
DeletedKeyGone ==
    (last'.op = "delete" /\ last'.res.msg = "LIST_DELETED") =>
        \A n \in AllNames :
            Lower(n) = Lower(last'.res.key) => ~Resolves(lists', n)

\* a key appears in a running manager only through a create, with no items
KeyAppearsEmpty ==
    (alive /\ Keys(lists') # Keys(lists)) =>
        \A n \in AllNames :
            (~Resolves(lists, n) /\ Resolves(lists', n)) =>
                /\ last'.op = "create"
                /\ ItemsOf(lists', n) = <<>>

\* C12 as stated: after a successful delete the key is gone in every letter
\* case; show_one, add_one, add_many, remove and delete on a name that is
\* not in the collection return NotFound and change nothing; the name
\* comes back only through a create, as an empty list.
C12_DeletedListNotFound ==
    [][/\ DeletedKeyGone
       /\ (last'.op \in Resolving /\ ~Resolves(lists, last'.name))
             => (last'.res.cat = "NotFound" /\ lists' = lists)
       /\ KeyAppearsEmpty]_vars

\* C12 amended: the same, with add_one taken on valid items (add_one
\* validates the item before it looks the list up, so an invalid item on a
\* deleted list is refused as Validation).
C12_DeletedListNotFoundForValidItems ==
    [][/\ DeletedKeyGone
       /\ (/\ last'.op \in Resolving
           /\ ~Resolves(lists, last'.name)
           /\ last'.op = "add_one" => IsValidItem(last'.arg))
             => (last'.res.cat = "NotFound" /\ lists' = lists)
       /\ KeyAppearsEmpty]_vars

\* delete("A") has returned its success message for the stored key "a" and
\* the collection is empty
C12_Witness ==
    /\ last.op = "delete"
    /\ last.name = Str1("A")
    /\ last.res.msg = "LIST_DELETED"
    /\ last.res.key = Str1("a")
    /\ lists = <<>>

Rejections == {"Validation", "NotFound", "AlreadyExists", "LimitExceeded"}

\* C13: a call that returns Validation, NotFound, AlreadyExists or
\* LimitExceeded leaves the collection, the storage file and the backup as
\* they were; remove of an item the list does not hold returns NotFound and
\* changes nothing.
C13_RejectionChangesNothing ==
    [][/\ last'.res.cat \in Rejections
             => (lists' = lists /\ file' = file /\ backup' = backup)
       /\ (/\ last'.op = "remove"
           /\ Resolves(lists, last'.name)
           /\ ~InSeq(Strip(last'.arg), ItemsOf(lists, last'.name)))
             => (last'.res.cat = "NotFound" /\ lists' = lists)]_vars

\* remove of an item that a non-empty list does not hold has returned
\* NotFound
C13_Witness ==
    /\ last.op = "remove"
    /\ last.res.msg = "ITEM_NOT_FOUND"
    /\ ItemsOf(lists, last.name) # <<>>
    /\ LoadData(file) = lists

\* same keys in the same order, each with the same items in the same order
SameCollection(l1, l2) ==
    /\ Len(l1) = Len(l2)
    /\ \A i \in 1..Len(l1) : l1[i].name = l2[i].name /\ l1[i].items = l2[i].items

Corrupt(f) == f.k \in {"bad", "trunc", "undec"}

\* C15: a load of non-parseable content gives an empty collection and adds
\* exactly one timestamped sidecar holding that content; no step changes or
\* removes a sidecar.
C15_CorruptFileKeptInSidecar ==
    [][/\ (last'.op = "init" /\ Corrupt(file))
             => /\ alive'
                /\ lists' = <<>>
                /\ sidecars' = Append(sidecars, file)
       /\ \A i \in 1..Len(sidecars) :
             Len(sidecars') >= i /\ sidecars'[i] = sidecars[i]]_vars

\* C16: construction never raises, and on an absent file it gives an empty
\* collection.
C16_LoadAlwaysSucceeds ==
    last.op = "init" =>
        /\ last.res.cat # "Raised"
        /\ alive
        /\ file.k = "absent" => lists = <<>>

\* the file is a JSON object whose values are all arrays of strings
WellFormed(f) == f.k = "obj" /\ \A i \in 1..Len(f.d) : f.d[i].kind = "list"

\* C17: a file that parses but is not a mapping of names to sequences of
\* strings loads as the empty collection, so every loaded collection maps
\* each name to a sequence.
C17_LoadedValuesAreSequences ==
    (last.op = "init" /\ alive) =>
        /\ (Parses(file) /\ ~WellFormed(file)) => lists = <<>>
        /\ \A i \in 1..Len(lists) : lists[i].kind = "list"

\* this step is a mutating operation whose save succeeded
Saved == last'.op \in Mutators /\ last'.res.cat = "Ok" /\ lists' # lists

\* C18: with the backup enabled and a storage file present, a successful
\* save leaves in the backup what the file held before the save; with the
\* backup disabled or no file yet, a save leaves the backup alone; the backup
\* changes in no other way.
C18_BackupHoldsPreviousFile ==
    [][/\ Saved
             => /\ file' = Dump(lists')
                /\ backup' = IF backup_enabled /\ file.k # "absent"
                             THEN file ELSE backup
       /\ (last'.op \in Mutators /\ (~backup_enabled \/ file.k = "absent"))
             => backup' = backup
       /\ backup' # backup
             => (last'.op \in Mutators /\ backup_enabled /\ backup' = file)]_vars

\* a save has succeeded and the backup holds the previous, different
\* collection
C18_Witness ==
    /\ last.op \in Mutators
    /\ last.res.cat = "Ok"
    /\ backup_enabled
    /\ file = Dump(lists)
    /\ backup.k = "obj"
    /\ backup # file
    /\ backup.d # <<>>

\* the positions of the keys equal to the trimmed name when both are
\* lowercased
Hits(ls, n) == {i \in 1..Len(ls) : Lower(ls[i].name) = Lower(Strip(n))}

\* C19: add_one (of a valid item), add_many, remove, show_one and delete
\* act on the stored key that equals the trimmed name up to letter case and
\* name that key in their result; they return NotFound for any other name.
C19_ResolveTrimsAndIgnoresCase ==
    [][(/\ last'.op \in Resolving
        /\ last'.op = "add_one" => IsValidItem(last'.arg))
          => IF Hits(lists, last'.name) = {}
             THEN last'.res.msg = "LIST_NOT_FOUND"
             ELSE /\ last'.res.msg # "LIST_NOT_FOUND"
                  /\ last'.res.key # EmptyStr
                        => \E i \in Hits(lists, last'.name) :
                              last'.res.key = lists[i].name]_vars

\* sub occurs in str as a contiguous run
Contains(str, sub) ==
    \E i \in 1..(Len(str) + 1) :
        \E j \in (i - 1)..Len(str) : SubSeq(str, i, j) = sub

\* the (list position, item position) pairs whose item contains the trimmed
\* term, letter case ignored
MatchPairs(ls, term) ==
    {pr \in UNION {{<<i, k>> : k \in 1..Len(ls[i].items)} : i \in 1..Len(ls)} :
        Contains(Lower(ls[pr[1]].items[pr[2]]), Lower(Strip(term)))}

Before(p, q) == p[1] < q[1] \/ (p[1] = q[1] /\ p[2] < q[2])

\* the n-th pair of S in list order, then item order
NthPair(S, n) == CHOOSE p \in S : Cardinality({q \in S : Before(q, p)}) = n - 1

\* C20: search of a blank term returns Validation; search of any other term
\* returns one line per matching (list, item) pair, in list order and then
\* item order, and the no-results message exactly when no pair matches.
C20_SearchFindsExactlyTheMatches ==
    last.op = "search" =>
        IF Strip(last.arg) = EmptyStr
        THEN last.res.cat = "Validation"
        ELSE LET S == MatchPairs(lists, last.arg)
             IN  /\ last.res.msg = (IF S = {} THEN "NO_SEARCH_RESULTS"
                                    ELSE "SEARCH_RESULTS")
                 /\ Len(last.res.out) = Cardinality(S)
                 /\ \A n \in 1..Len(last.res.out) :
                       last.res.out[n] =
                           [name |-> lists[NthPair(S, n)[1]].name,
                            item |-> lists[NthPair(S, n)[1]].items[NthPair(S, n)[2]]]

\* search("B ") has returned three lines: "Ab" and "b" of the first list,
\* then "ba" of the second
C20_Witness ==
    /\ last.op = "search"
    /\ last.arg = Str2("B", " ")
    /\ Len(last.res.out) = 3
    /\ last.res.out[1].item = Str2("A", "b")
    /\ last.res.out[3].item = Str2("b", "a")

----------------------------------------------------------------------------
\* C21: show_all returns the no-lists message exactly when the collection
\* is empty; otherwise its lines are the lists of the collection, each name
\* once with the number of its items, in strictly ascending order of name,
\* whatever the order of the keys in the collection
C21_ShowAllSortedWithCounts ==
    last.op = "show_all" =>
        /\ (last.res.msg = "NO_LISTS") = (lists = <<>>)
        /\ lists # <<>> =>
              /\ last.res.msg = "ALL_LISTS"
              /\ Len(last.res.out) = Len(lists)
              /\ \A i \in 1..Len(lists) :
                    Cardinality({j \in 1..Len(last.res.out) :
                                    last.res.out[j].name = lists[i].name}) = 1
              /\ \A j \in 1..Len(last.res.out) :
                    \E i \in 1..Len(lists) :
                        last.res.out[j] = [name |-> lists[i].name,
                                           count |-> Len(lists[i].items)]
              /\ \A j \in 1..(Len(last.res.out) - 1) :
                    StrLess(last.res.out[j].name, last.res.out[j + 1].name)

\* the collection holds "a" (two items) before "B" (one item), and show_all
\* has returned "B" with 1 before "a" with 2
C21_Witness ==
    /\ last.op = "show_all"
    /\ Len(lists) = 2
    /\ lists[1].name = Str1("a")
    /\ lists[2].name = Str1("B")
    /\ last.res.out = <<[name |-> Str1("B"), count |-> 1],
                        [name |-> Str1("a"), count |-> 2]>>

----------------------------------------------------------------------------
\* float(n)
FromNat(n) == TrueDiv(n, 1)

\* x * m for a float x and a Python int 0 <= m < Base / 2: the correctly
\* rounded product
FloatTimesInt(x, m) ==
    IF x = Zero \/ m = 0 THEN Zero
    ELSE LET p == BigMul(x.sig, m, 0)
             excess == BigBitLen(p) - MantissaBits
         IN  Nearest(p, Pow2(excess), x.exp + excess)

\* the number of items of the collection
ItemCount(ls) ==
    Cardinality(UNION {{<<i, j>> : j \in 1..Len(ls[i].items)} : i \in 1..Len(ls)})

\* m is the length of a longest list, 0 without lists
IsLargest(ls, m) ==
    IF ls = <<>> THEN m = 0
    ELSE /\ \E i \in 1..Len(ls) : Len(ls[i].items) = m
         /\ \A i \in 1..Len(ls) : Len(ls[i].items) <= m

\* x <= y for natural numbers given by their digits
BigLeq(x, y) ==
    \/ Len(x) < Len(y)
    \/ /\ Len(x) = Len(y)
       /\ \/ x = y
          \/ \E i \in 1..Len(x) : x[i] < y[i] /\ \A j \in 1..(i - 1) : x[j] = y[j]

\* |f - n / d| is at most half a unit in the last place of f: with
\* f = sig * 2^exp, 2 * |sig * d - n * 2^(-exp)| <= d
WithinHalfUlp(f, n, d) ==
    IF n = 0 THEN f = Zero
    ELSE /\ f # Zero
         /\ BigBitLen(f.sig) = MantissaBits
         /\ f.exp <= 0
         /\ BigLeq(BigMul(BigMul(f.sig, d, 0), 2, 0),
                   BigMul(Scaled(n, 0 - f.exp), 2, d))
         /\ BigLeq(BigMul(Scaled(n, 0 - f.exp), 2, 0),
                   BigMul(BigMul(f.sig, d, 0), 2, d))

\* d without its factors 2
RECURSIVE OddPart(_)
OddPart(d) == IF d % 2 = 0 THEN OddPart(d \div 2) ELSE d

\* the float 1.5 = 3 * 2^51 * 2^-52
OnePointFive == [sig |-> <<24, 0, 0, 0>>, exp |-> -52]

\* what stats reports apart from the average
StatsCounts(st) ==
    /\ st.total_lists = Len(lists)
    /\ st.total_items = ItemCount(lists)
    /\ IsLargest(lists, st.largest_list_size)
    /\ lists = <<>> => st.average_items_per_list = Zero
    /\ (Len(lists) = 2 /\ Len(lists[1].items) = 1 /\ Len(lists[2].items) = 2) =>
          /\ st.total_lists = 2
          /\ st.total_items = 3
          /\ st.average_items_per_list = OnePointFive
          /\ st.largest_list_size = 2

\* C22 as stated: stats reports the number of keys, the sum and the maximum
\* of the list lengths, and an average whose product with total_lists
\* equals total_items
C22_AverageTimesListsIsItems ==
    (last.op = "stats" /\ last.res.cat = "Ok") =>
        /\ StatsCounts(last.res.out[1])
        /\ FloatTimesInt(last.res.out[1].average_items_per_list,
                         last.res.out[1].total_lists)
              = FromNat(last.res.out[1].total_items)

\* C22: stats reports the number of keys, the sum and the maximum of the
\* list lengths (all 0 on an empty collection; 2, 3, 1.5 and 2 on lists of
\* one and two items), and as average the float nearest to
\* total_items / total_lists; the product of the average with total_lists
\* equals total_items whenever the odd part of total_lists divides
\* total_items, that is whenever the quotient is a float
C22_AverageIsNearestFloat ==
    (last.op = "stats" /\ last.res.cat = "Ok") =>
        /\ StatsCounts(last.res.out[1])
        /\ lists # <<>> =>
              /\ WithinHalfUlp(last.res.out[1].average_items_per_list,
                               last.res.out[1].total_items,
                               last.res.out[1].total_lists)
              /\ last.res.out[1].total_items % OddPart(last.res.out[1].total_lists) = 0
                    => FloatTimesInt(last.res.out[1].average_items_per_list,
                                     last.res.out[1].total_lists)
                         = FromNat(last.res.out[1].total_items)

\* stats on 49 lists holding one item in all: the product of the average
\* with 49 is not 1
C22_Witness ==
    /\ last.op = "stats"
    /\ last.res.out[1].total_lists = 49
    /\ last.res.out[1].total_items = 1
    /\ FloatTimesInt(last.res.out[1].average_items_per_list, 49) # FromNat(1)

----------------------------------------------------------------------------
Reads == {"show_one", "show_all", "search", "stats"}

\* what a read returns on the collection ls
ReadResult(o, ls, n, a) ==
    CASE o = "show_one" -> ShowList(ls, n)
      [] o = "show_all" -> ShowAllLists(ls)
      [] o = "search" -> SearchItem(ls, a)
      [] o = "stats" -> GetStats(ls)

\* C23: a call of show_one, show_all, search or stats leaves the collection,
\* the storage file, the backup file and the corrupt-file copies as they
\* were and saves nothing, and its result is determined by the unchanged
\* collection and its arguments, so a repeated call returns the same
C23_ReadsAreFrameless ==
    [][(last.op = "none" /\ last'.op \in Reads) =>
          /\ lists' = lists
          /\ file' = file
          /\ backup' = backup
          /\ sidecars' = sidecars
          /\ fails' = fails
          /\ last'.save = "none"
          /\ last'.res = ReadResult(last'.op, lists, last'.name, last'.arg)]_vars

\* search("a") has returned two lines while the file holds an earlier
\* collection than the memory does
C23_Witness ==
    /\ last.op = "search"
    /\ Len(last.res.out) = 2
    /\ Len(lists) = 2
    /\ LoadData(file) # lists

----------------------------------------------------------------------------
FailedSaves == {"copy", "open", "write"}

\* what the mutator o decides on the collection ls
Decided(o, ls, n, a) ==
    CASE o = "create" -> CreateList(ls, n)
      [] o = "add_one" -> AddItem(ls, n, a)
      [] o = "add_many" -> AddMultipleItems(ls, n, a)
      [] o = "remove" -> RemoveItem(ls, n, a)
      [] o = "delete" -> DeleteList(ls, n)

\* C24: when the save of a create, add_one, add_many, remove or delete
\* fails, the call returns the generic failure message, which is none of
\* the Validation, NotFound, AlreadyExists and LimitExceeded results and not
\* an exception; the collection in memory is the changed one, and the file,
\* if it held the collection before the call, does not hold the new one
C24_FailedSaveKeepsChange ==
    [][(last.op = "none" /\ last'.op \in Mutators /\ last'.save \in FailedSaves) =>
          /\ last'.res = Generic
          /\ last'.res.cat \notin Rejections \cup {"Ok", "Raised"}
          /\ lists' # lists
          /\ lists' = Decided(last'.op, lists, last'.name, last'.arg).lists
          /\ fails = 0 => file' # Dump(lists')]_vars

\* add_one has appended its item and returned the generic failure, and the
\* file is cut short
C24_Witness ==
    /\ last.op = "add_one"
    /\ last.save = "write"
    /\ last.res = Generic
    /\ Len(lists) = 1
    /\ lists[1].items = <<Strip(last.arg)>>
    /\ file = Trunc

----------------------------------------------------------------------------
\* the positions that delimit the pieces of a text: its commas and its ends
Delims(t) == {0, Len(t) + 1} \cup {i \in 1..Len(t) : t[i] = ","}

NextDelim(t, c) ==
    CHOOSE d \in Delims(t) : d > c /\ \A x \in Delims(t) : x > c => d <= x

\* the number of pieces of a text that hold more than white space
PieceCount(t) ==
    Cardinality({c \in Delims(t) \ {Len(t) + 1} :
                    \E j \in (c + 1)..(NextDelim(t, c) - 1) : ~IsSpace(t[j])})

\* C25: add_many on an existing list returns LimitExceeded, leaving the
\* collection and the file as they were and saving nothing, whenever the
\* length of the list plus the number of non-blank pieces of the text
\* exceeds max_items_per_list, duplicates and invalid pieces included;
\* otherwise it does not return LimitExceeded
C25_BatchCapacityPreCheck ==
    [][(last.op = "none" /\ last'.op = "add_many" /\ Resolves(lists, last'.name)) =>
          IF Len(ItemsOf(lists, last'.name)) + PieceCount(last'.arg)
                 > max_items_per_list
          THEN /\ last'.res.cat = "LimitExceeded"
               /\ last'.save = "none"
               /\ lists' = lists
               /\ file' = file
               /\ backup' = backup
          ELSE last'.res.cat # "LimitExceeded"]_vars

\* the list holds "a" with room for two more, and add_many of "A,aba,a" (a
\* new item, an invalid one and a duplicate) has returned LimitExceeded
C25_Witness ==
    /\ last.op = "add_many"
    /\ last.arg = JoinComma(<<Str1("A"), Str3("a", "b", "a"), Str1("a")>>)
    /\ last.res.cat = "LimitExceeded"
    /\ max_items_per_list = MaxItems
    /\ Len(lists) = 1
    /\ lists[1].items = <<Str1("a")>>

----------------------------------------------------------------------------
\* C26: when the copy of the storage file to the backup path fails during
\* the save of a mutator, the new collection is still written to the
\* storage file and the call reports success
C26_CopyFailureSkipped ==
    [][(last.op = "none" /\ last'.op \in Mutators /\ last'.save = "copy") =>
          /\ file' = Dump(lists')
          /\ last'.res.cat = "Ok"]_vars

----------------------------------------------------------------------------
\* seq without its element at position p
Without(seq, p) == [q \in 1..(Len(seq) - 1) |-> IF q < p THEN seq[q] ELSE seq[q + 1]]

\* ls with the items of its entry i replaced by its
WithItems(ls, i, its) ==
    [q \in 1..Len(ls) |-> IF q = i THEN [ls[q] EXCEPT !.items = its] ELSE ls[q]]

\* C27: a mutator that reports success changes its target only.  add_one
\* appends the trimmed item at the end of the list the name resolves to;
\* add_many appends the items it reports as added, in that order; remove
\* takes one occurrence of the trimmed item out of the list and keeps the
\* order of the others; create appends one empty list under the trimmed
\* name; delete takes out the one key the name resolves to.  Every other
\* list keeps its name, its items and its place.
C27_SuccessChangesOnlyTarget ==
    [][(last.op = "none" /\ last'.op \in Mutators /\ last'.res.cat = "Ok") =>
          CASE last'.op = "add_one" ->
                 \E i \in 1..Len(lists) :
                     /\ Lower(lists[i].name) = Lower(last'.name)
                     /\ lists' = WithItems(lists, i,
                                    Append(lists[i].items, Strip(last'.arg)))
            [] last'.op = "add_many" ->
                 \E i \in 1..Len(lists) :
                     /\ Lower(lists[i].name) = Lower(last'.name)
                     /\ lists' = WithItems(lists, i,
                                    lists[i].items \o last'.res.added)
            [] last'.op = "remove" ->
                 \E i \in 1..Len(lists) :
                     /\ Lower(lists[i].name) = Lower(last'.name)
                     /\ \E p \in 1..Len(lists[i].items) :
                           /\ lists[i].items[p] = Strip(last'.arg)
                           /\ lists' = WithItems(lists, i, Without(lists[i].items, p))
            [] last'.op = "create" ->
                 lists' = Append(lists, [name |-> Strip(last'.name),
                                         kind |-> "list", items |-> <<>>])
            [] last'.op = "delete" ->
                 \E i \in 1..Len(lists) :
                     /\ Lower(lists[i].name) = Lower(last'.name)
                     /\ lists' = Without(lists, i)]_vars

\* delete("A") has succeeded on a collection of two lists and has left the
\* list "b" alone
C27_Witness ==
    /\ last.op = "delete"
    /\ last.res.cat = "Ok"
    /\ last.n0 = 2
    /\ Lower(last.name) = Str1("a")
    /\ Len(lists) = 1
    /\ lists[1].name = Str1("b")

----------------------------------------------------------------------------
\* no add_item is between its first and its last step
Quiescent == \A t \in Threads : threads[t].pc = "idle"

\* the invariants of the collection: no item twice in a list, no list
\* above max_items_per_list
ListsSound ==
    \A i \in 1..Len(lists) :
        /\ Distinct(lists[i].items)
        /\ Len(lists[i].items) <= max_items_per_list

\* C28: as long as every add_one has begun with no other one in flight,
\* no list holds an item twice or more than max_items_per_list items, and
\* between the calls the storage file holds the collection in memory
C28_SerialAddsAreSound ==
    (alive /\ ~overlapped) =>
        /\ ListsSound
        /\ Quiescent => file = Dump(lists)

\* two add_one calls have interleaved: the list holds the same item twice,
\* more than max_items_per_list allows, one call has returned and the file
\* holds the collection without the second copy
C28_Witness ==
    /\ overlapped
    /\ max_items_per_list = 1
    /\ Len(lists) = 1
    /\ Len(lists[1].items) = 2
    /\ lists[1].items[1] = lists[1].items[2]
    /\ \E t \in Threads : threads[t].pc = "idle"
    /\ file = Dump(<<ListEntry(lists[1].name, <<lists[1].items[1]>>)>>)
    /\ file # Dump(lists)

----------------------------------------------------------------------------
\* C29: while the last save, if there was one, has succeeded, loading the
\* storage file yields the collection in memory; this holds from the
\* construction on, whatever the file held then, and after calls that do
\* not save
C29_FreshLoadEqualsMemory ==
    (alive /\ fails = 0) => LoadData(file) = lists

\* add_many has found its only item in the list already, has added nothing
\* and has not saved
C29_Witness ==
    /\ last.op = "add_many"
    /\ last.res.cat = "Ok"
    /\ last.res.added = <<>>
    /\ last.res.skipped # <<>>
    /\ last.save = "none"
    /\ fails = 0
    /\ lists # <<>>
    /\ file = Dump(lists)

----------------------------------------------------------------------------
\* the step is create(n) with a valid name whose list is in memory and not
\* in the storage file
RepeatsUnsavedCreate ==
    /\ last.op = "none"
    /\ last'.op = "create"
    /\ IsValidName(last'.name)
    /\ Resolves(lists, Strip(last'.name))
    /\ ~Resolves(LoadData(file), Strip(last'.name))

\* the step is add_one(list, item) with a valid item that the list holds in
\* memory and not in the storage file
RepeatsUnsavedAdd ==
    /\ last.op = "none"
    /\ last'.op = "add_one"
    /\ IsValidItem(last'.arg)
    /\ Resolves(lists, last'.name)
    /\ InSeq(Strip(last'.arg), ItemsOf(lists, last'.name))
    /\ ~(/\ Resolves(LoadData(file), last'.name)
         /\ InSeq(Strip(last'.arg), ItemsOf(LoadData(file), last'.name)))

\* the call of this step has changed nothing and has not saved
NothingWritten ==
    /\ last'.save = "none"
    /\ file' = file
    /\ backup' = backup
    /\ lists' = lists

\* the file changes only by a save, which writes the whole collection when
\* it succeeds and cuts the file short when its write fails
OnlySavesWrite ==
    /\ last'.save = "ok" => file' = Dump(lists')
    /\ file' # file =>
          \/ last'.save = "ok" /\ last'.op \in Mutators
          \/ last'.save = "write" /\ file' = Trunc

\* the call that has just returned with a failed save, made again
Again == Decided(last'.op, lists', last'.name, last'.arg)

\* C30 as stated: a create or add_one whose change is in memory and not in
\* the file is, when repeated, rejected as AlreadyExists without a write,
\* and the change reaches the file only by a later successful save
C30_RepeatIsAlreadyExists ==
    [][/\ (RepeatsUnsavedCreate \/ RepeatsUnsavedAdd) =>
             last'.res.cat = "AlreadyExists" /\ NothingWritten
       /\ OnlySavesWrite]_vars

\* C30: a create or add_one whose save has failed would be rejected if made
\* again, and a create or add_one whose change is in memory and not in the
\* file is rejected: as AlreadyExists when the collection (for create) or
\* the list (for add_one) has room, as LimitExceeded when it is full; the
\* rejected call changes and writes nothing.  The file changes only by a
\* save, and a successful save writes the whole collection.
C30_RepeatIsRejectedUnwritten ==
    [][/\ (last.op = "none" /\ last'.op \in {"create", "add_one"}
              /\ last'.save \in FailedSaves) =>
             /\ Again.res.cat \in {"AlreadyExists", "LimitExceeded"}
             /\ ~Again.save
             /\ Again.lists = lists'
       /\ RepeatsUnsavedCreate =>
             /\ last'.res.cat = (IF Len(lists) < max_lists_per_user
                                 THEN "AlreadyExists" ELSE "LimitExceeded")
             /\ NothingWritten
       /\ RepeatsUnsavedAdd =>
             /\ last'.res.cat = (IF Len(ItemsOf(lists, last'.name)) < max_items_per_list
                                 THEN "AlreadyExists" ELSE "LimitExceeded")
             /\ NothingWritten
       /\ OnlySavesWrite]_vars

\* create has been refused as AlreadyExists for a list that memory holds
\* and the storage file does not, the save of its creation having failed
C30_Witness ==
    /\ last.op = "create"
    /\ last.res.cat = "AlreadyExists"
    /\ last.save = "none"
    /\ fails > 0
    /\ Resolves(lists, Strip(last.name))
    /\ ~Resolves(LoadData(file), Strip(last.name))

----------------------------------------------------------------------------
\* the file holds a whole collection
Complete(f) == f.k = "obj"

\* C31: with the backup enabled, a save whose write fails part-way on a
\* complete storage file leaves that former content in the backup file, and
\* while the storage file stays cut short, across a restart and later
\* calls, the backup file keeps the complete collection it holds
C31_BackupKeepsLastGoodSave ==
    [][backup_enabled =>
          /\ (last'.save = "write" /\ Complete(file)) =>
                file' = Trunc /\ backup' = file
          /\ (file = Trunc /\ Complete(backup) /\ ~Complete(file')) =>
                backup' = backup]_vars

====
